---- MODULE Spec2Model ----
(***************************************************************************)
(* Model of the AutoHedge API gateway (src/api.py, class AutoHedgeAPI):   *)
(* the three in-memory dictionaries users, api_keys and trades, and the   *)
(* route handlers registered by _setup_routes.  The handlers are          *)
(* `async def` coroutines without any await, so each one runs to its end  *)
(* on the event loop; create_trade is split at its blocking call to the   *)
(* Fund Engine (AutoFund.run) so that the state during the call is        *)
(* visible.  While that call runs the event loop serves nothing else.     *)
(*                                                                         *)
(* uuid.uuid4() is modelled by a counter: no call returns a value an      *)
(* earlier call returned.  datetime.now() is modelled by a clock that     *)
(* only moves forward.  AutoFund (autohedge.main) and the Swarms endpoint *)
(* are the environment: the engine returns a result or raises, the post   *)
(* succeeds, is answered with an error status, or raises.                 *)
(***************************************************************************)
EXTENDS Integers, Sequences, FiniteSets, TLC

\* ---------------------------------------------------------------- bounds
MaxUsers == 2       \* registrations explored
MaxTrades == 2      \* submissions that reach the handler body
MaxTime == 1        \* wall-clock values 0..MaxTime (unit: one day)
MaxSkip == 1        \* skip values 0..MaxSkip tried by list_trades
MaxLimit == 2       \* limit values 1..MaxLimit tried by list_trades
MaxLookback == 1    \* days values 1..MaxLookback tried by the analytics route
MaxWindowTime == 2  \* wall-clock values 0..MaxWindowTime in SpecAnalytics
MaxWindowDays == 2  \* days values 1..MaxWindowDays in SpecAnalytics

\* ------------------------------------------------------ program constants
MinTaskLen == 10    \* TradingTask.task  min_length
MinStocks == 1      \* TradingTask.stocks min_items
MinFundNameLen == 3 \* User.fund_name min_length
MinRisk == 1        \* TradingTask.risk_level ge
MaxRisk == 10       \* TradingTask.risk_level le
LimitCap == 100     \* list_trades limit le
MaxDays == 365      \* get_historical_analytics days le

\* Python's None, for each kind of optional value.
None == "<None>"    \* Optional[str], Optional[Dict]
Unset == "<unset>"  \* a field the request body did not carry
NoTime == -1        \* Optional[datetime] = None
NoId == 0           \* dict.get miss; uuid values are 1, 2, ...
NoRisk == 0 - 100   \* risk_level omitted
NoMetrics == [none |-> TRUE]  \* Optional[Dict[str, float]] = None

Idle == [pc |-> "idle"]   \* no create_trade call is running

PENDING == "pending"
EXECUTING == "executing"
COMPLETED == "completed"
FAILED == "failed"
TradeStatus == {PENDING, EXECUTING, COMPLETED, FAILED}

VARIABLES
    users,      \* self.users    : user id -> User
    api_keys,   \* self.api_keys : api key -> user id
    trades,     \* self.trades   : TradeResponse records in insertion order
    uuids,      \* number of uuid.uuid4() values drawn so far
    clock,      \* datetime.now(timezone.utc)
    inflight,   \* the running create_trade call, or Idle
    swarms,     \* the posts to the Swarms endpoint: data and what became of it
    failed_logs,\* what _store_failed_log has kept for retry
    resp,       \* the response the last request received
    issued,     \* history: the <<api key, user id>> pairs create_user returned
    deleted     \* history: the trade ids delete_trade has removed

vars == <<users, api_keys, trades, uuids, clock, inflight, swarms, failed_logs,
          resp, issued, deleted>>

\* ---------------------------------------------------------------- inputs
Profiles ==
    { [username |-> "trader_1", email |-> "t1@example.com",
       fund_name |-> "Fund One", fund_description |-> None],
      [username |-> "trader_2", email |-> "t2@example.com",
       fund_name |-> "Fund Two", fund_description |-> "second fund"] }


Tasks ==
    { [stocks |-> <<"NVDA", "AAPL">>, task |-> "analyze ai stocks",
       allocation |-> 1000, strategy_type |-> "momentum", risk_level |-> 7],
      [stocks |-> <<"TSLA">>, task |-> "0123456789",
       allocation |-> 1, strategy_type |-> None, risk_level |-> NoRisk],
      [stocks |-> <<>>, task |-> "analyze ai stocks",
       allocation |-> 1000, strategy_type |-> None, risk_level |-> NoRisk],
      [stocks |-> <<"TSLA">>, task |-> "too short",
       allocation |-> 1000, strategy_type |-> None, risk_level |-> NoRisk],
      [stocks |-> <<"TSLA">>, task |-> "analyze ai stocks",
       allocation |-> 0, strategy_type |-> None, risk_level |-> NoRisk],
      [stocks |-> <<"TSLA">>, task |-> "analyze ai stocks",
       allocation |-> 1000, strategy_type |-> None, risk_level |-> 11] }

Updates ==
    { [fund_name |-> "Fund X", fund_description |-> Unset, email |-> Unset],
      [fund_name |-> Unset, fund_description |-> None, email |-> "x@example.com"],
      [fund_name |-> None, fund_description |-> Unset, email |-> Unset],
      [fund_name |-> "ab", fund_description |-> Unset, email |-> Unset],
      [fund_name |-> Unset, fund_description |-> Unset, email |-> Unset] }

EngineResults == {"buy NVDA", "hold"}         \* values AutoFund.run returns
EngineErrors == {"engine down", "timed out"}  \* exceptions AutoFund raises
SwarmsOutcomes == {"ok", "http error", "network error"}  \* requests.post

\* ------------------------------------------------------ Credential Store
\* _get_current_user, the lookup: the user id the key resolves to, or NoId
\* when the handler raises 401.
Lookup(keys, us, api_key) ==
    LET user_id == IF api_key \in DOMAIN keys THEN keys[api_key] ELSE NoId
    IN  IF user_id = NoId \/ user_id \notin DOMAIN us THEN NoId ELSE user_id

\* _get_current_user, the side effect: user.last_login = now.
Touch(us, user_id, now) ==
    [us EXCEPT ![user_id] = [@ EXCEPT !.last_login = now]]

\* User(id=..., api_key=..., created_at=now, **user.dict())
NewUser(user_id, api_key, profile, now) ==
    [id |-> user_id, api_key |-> api_key, username |-> profile.username,
     email |-> profile.email, fund_name |-> profile.fund_name,
     fund_description |-> profile.fund_description, created_at |-> now,
     last_login |-> NoTime, is_active |-> TRUE]

\* Variant: the record is filed under its api key instead of its id.
StoreUser_ByApiKey(us, user_id, user_data) ==
    [k \in DOMAIN us \cup {user_data.api_key} |->
        IF k = user_data.api_key THEN user_data ELSE us[k]]

\* self.users[user_id] = user_data
StoreUser(us, user_id, user_data) ==
    [k \in DOMAIN us \cup {user_id} |-> IF k = user_id THEN user_data ELSE us[k]]

\* Variant: key and value swapped, self.api_keys[user_id] = api_key.
StoreKey_Swapped(keys, api_key, user_id) ==
    [k \in DOMAIN keys \cup {user_id} |-> IF k = user_id THEN api_key ELSE keys[k]]

\* self.api_keys[api_key] = user_id
StoreKey(keys, api_key, user_id) ==
    [k \in DOMAIN keys \cup {api_key} |-> IF k = api_key THEN user_id ELSE keys[k]]

\* UserUpdate validation: fund_name, when given as a string, has min_length 3.
ValidUpdate(upd) ==
    upd.fund_name \in {Unset, None} \/ Len(upd.fund_name) >= MinFundNameLen

\* Variant: user_update.dict() without exclude_unset, for fund_description:
\* an omitted description arrives as None and overwrites the stored one.
MergeUpdate_DropsOmitted(user, upd) ==
    [user EXCEPT
        !.fund_name = IF upd.fund_name = Unset THEN @ ELSE upd.fund_name,
        !.fund_description =
            IF upd.fund_description = Unset THEN None ELSE upd.fund_description,
        !.email = IF upd.email = Unset THEN @ ELSE upd.email]

\* updated_data = current_user.dict(); updated_data.update(
\*     user_update.dict(exclude_unset=True))
MergeUpdate(user, upd) ==
    [user EXCEPT
        !.fund_name = IF upd.fund_name = Unset THEN @ ELSE upd.fund_name,
        !.fund_description =
            IF upd.fund_description = Unset THEN @ ELSE upd.fund_description,
        !.email = IF upd.email = Unset THEN @ ELSE upd.email]

\* User(**updated_data) validates: fund_name and email are required strings.
ValidUser(data) ==
    /\ data.fund_name # None /\ Len(data.fund_name) >= MinFundNameLen
    /\ data.email # None


\* ---------------------------------------------------------- Trade Ledger
\* Variant: allocation declared with ge=0 instead of gt=0.
ValidTask_ZeroAllocation(task) ==
    /\ Len(task.stocks) >= MinStocks
    /\ Len(task.task) >= MinTaskLen
    /\ task.allocation >= 0
    /\ (task.risk_level = NoRisk
        \/ (task.risk_level >= MinRisk /\ task.risk_level <= MaxRisk))

\* TradingTask field constraints (pydantic Field(...)).
ValidTask(task) ==
    /\ Len(task.stocks) >= MinStocks
    /\ Len(task.task) >= MinTaskLen
    /\ task.allocation > 0
    /\ (task.risk_level = NoRisk
        \/ (task.risk_level >= MinRisk /\ task.risk_level <= MaxRisk))

\* trade_id in self.trades
HasTrade(trs, trade_id) == \E i \in 1..Len(trs) : trs[i].id = trade_id

\* self.trades[trade_id]
TradeOf(trs, trade_id) == trs[CHOOSE i \in 1..Len(trs) : trs[i].id = trade_id]

\* TradeResponse(id=trade_id, ..., status=EXECUTING, created_at=now,
\*               executed_at=None, result=None, performance_metrics=None)
NewTrade(trade_id, user_id, task, now) ==
    [id |-> trade_id, user_id |-> user_id, task |-> task,
     status |-> EXECUTING, created_at |-> now, executed_at |-> NoTime,
     result |-> None, performance_metrics |-> NoMetrics]

\* Variant: the except branch's empty dictionary.
CalculatePerformanceMetrics_Empty(trade_result) == <<>>

\* _calculate_performance_metrics: the placeholder dictionary.
CalculatePerformanceMetrics(trade_result) ==
    [return_percentage |-> 0, sharpe_ratio |-> 0,
     max_drawdown |-> 0, volatility |-> 0]

\* Variant: the executed_at assignment is missing.
CompleteTrade_NoExecutedAt(trade_response, result, now) ==
    [trade_response EXCEPT
        !.status = COMPLETED,
        !.result = result,
        !.performance_metrics = CalculatePerformanceMetrics(result)]

\* Variant: the performance_metrics assignment is missing.
CompleteTrade_NoMetrics(trade_response, result, now) ==
    [trade_response EXCEPT
        !.status = COMPLETED,
        !.executed_at = now,
        !.result = result]

\* Variant: the status assignment is missing.
CompleteTrade_NoStatus(trade_response, result, now) ==
    [trade_response EXCEPT
        !.executed_at = now,
        !.result = result,
        !.performance_metrics =
            [return_percentage |-> 0, sharpe_ratio |-> 0,
             max_drawdown |-> 0, volatility |-> 0]]

\* The four assignments after trading_system.run returned.
CompleteTrade(trade_response, result, now) ==
    [trade_response EXCEPT
        !.status = COMPLETED,
        !.executed_at = now,
        !.result = result,
        !.performance_metrics = CalculatePerformanceMetrics(result)]

\* Variant: storing a record resets the status of the records already held.
StoreTrade_ResetsStatus(trs, trade_response) ==
    Append([i \in DOMAIN trs |-> [trs[i] EXCEPT !.status = PENDING]],
           trade_response)

\* self.trades[trade_id] = trade_response (a dict keeps insertion order; an
\* existing key keeps its place).
StoreTrade(trs, trade_response) ==
    IF HasTrade(trs, trade_response.id)
    THEN [i \in 1..Len(trs) |->
            IF trs[i].id = trade_response.id THEN trade_response ELSE trs[i]]
    ELSE Append(trs, trade_response)

\* Variant: the ledger is cleared.
RemoveTrade_All(trs, trade_id) == <<>>

\* del self.trades[trade_id]
RemoveTrade(trs, trade_id) == SelectSeq(trs, LAMBDA t : t.id # trade_id)

\* Variant: the ownership check is missing.
GetTradeCode_NoOwnerCheck(trs, trade_id, user_id) ==
    IF \A i \in 1..Len(trs) : trs[i].id # trade_id THEN 404 ELSE 200

\* get_trade: the status code of the two checks, in the handler's order.
GetTradeCode(trs, trade_id, user_id) ==
    IF ~HasTrade(trs, trade_id) THEN 404
    ELSE IF TradeOf(trs, trade_id).user_id # user_id THEN 403
    ELSE 200

\* Variant: the owner check of delete_trade is missing.
DeleteTradeCode_NoOwnerCheck(trs, trade_id, user_id) ==
    IF ~HasTrade(trs, trade_id) THEN 404 ELSE 200

\* Variant: a missing id is reported as deleted.
DeleteTradeCode_NoExistenceCheck(trs, trade_id, user_id) ==
    IF \E i \in 1..Len(trs) : trs[i].id = trade_id /\ trs[i].user_id # user_id
    THEN 403 ELSE 200

\* delete_trade: the status code of the two checks, in the handler's order.
DeleteTradeCode(trs, trade_id, user_id) ==
    IF ~HasTrade(trs, trade_id) THEN 404
    ELSE IF TradeOf(trs, trade_id).user_id # user_id THEN 403
    ELSE 200

\* Variant: the owner test is missing from the comprehension.
UserTrades_AllUsers(trs, user_id, status) ==
    SelectSeq(trs, LAMBDA t : status = None \/ t.status = status)

\* list_trades: the comprehension over self.trades.values().
UserTrades(trs, user_id, status) ==
    SelectSeq(trs, LAMBDA t : t.user_id = user_id
                              /\ (status = None \/ t.status = status))

\* Variant: ascending order (reverse=True missing).
InsertDesc_Ascending(sorted, x) ==
    LET before == SelectSeq(sorted, LAMBDA t : t.created_at <= x.created_at)
        after == SelectSeq(sorted, LAMBDA t : t.created_at > x.created_at)
    IN  before \o <<x>> \o after

\* One step of the stable sort: x goes after every element whose key is
\* not smaller (reverse=True keeps the original order of equal keys).
InsertDesc(sorted, x) ==
    LET before == SelectSeq(sorted, LAMBDA t : t.created_at >= x.created_at)
        after == SelectSeq(sorted, LAMBDA t : t.created_at < x.created_at)
    IN  before \o <<x>> \o after

RECURSIVE SortedDesc(_)
\* sorted(user_trades, key=lambda x: x.created_at, reverse=True)
SortedDesc(s) ==
    IF s = <<>> THEN <<>>
    ELSE InsertDesc(SortedDesc(SubSeq(s, 1, Len(s) - 1)), s[Len(s)])

\* s[skip : skip + limit]
Slice(s, skip, limit) ==
    LET last == IF skip + limit < Len(s) THEN skip + limit ELSE Len(s)
    IN  SubSeq(s, skip + 1, last)

\* list_trades: the returned list.
ListTradesResult(trs, user_id, status, skip, limit) ==
    Slice(SortedDesc(UserTrades(trs, user_id, status)), skip, limit)


\* ---------------------------------------------------- Analytics Aggregator
\* Variant: the comprehension without `trade.user_id == current_user.id`.
TradesInWindow_AllUsers(trs, user_id, start_date) ==
    SelectSeq(trs, LAMBDA t : t.created_at >= start_date)

\* Variant: the comprehension without `trade.created_at >= start_date`.
TradesInWindow_NoWindow(trs, user_id, start_date) ==
    SelectSeq(trs, LAMBDA t : t.user_id = user_id)

\* The comprehension of get_historical_analytics.
TradesInWindow(trs, user_id, start_date) ==
    SelectSeq(trs, LAMBDA t : t.user_id = user_id /\ t.created_at >= start_date)

RECURSIVE SumReturns(_)
\* sum(t.performance_metrics.get("return_percentage", 0) for t in user_trades)
SumReturns(s) ==
    IF s = <<>> THEN 0
    ELSE (IF "return_percentage" \in DOMAIN s[1].performance_metrics
          THEN s[1].performance_metrics.return_percentage ELSE 0)
         + SumReturns(Tail(s))

RECURSIVE SumAllocation(_)
\* sum(t.task.allocation for t in user_trades)
SumAllocation(s) ==
    IF s = <<>> THEN 0 ELSE s[1].task.allocation + SumAllocation(Tail(s))

\* len([t for t in user_trades if t.status == TradeStatus.COMPLETED])
SuccessfulTrades(s) == Len(SelectSeq(s, LAMBDA t : t.status = COMPLETED))

\* t.performance_metrics.get raises AttributeError on None.
AnalyticsRaises(s) == \E i \in 1..Len(s) : s[i].performance_metrics = NoMetrics

\* The HistoricalAnalytics the route returns; a quotient a / b is kept as
\* the pair <<a, b>>.
AnalyticsResult(trs, user_id, start_date) ==
    LET user_trades == TradesInWindow(trs, user_id, start_date)
        total_trades == Len(user_trades)
    IN  IF user_trades = <<>>
        THEN [total_trades |-> 0, success_rate |-> <<0, 1>>,
              average_return |-> <<0, 1>>, total_allocation |-> 0,
              risk_adjusted_return |-> 0, top_performing_stocks |-> <<>>]
        ELSE [total_trades |-> total_trades,
              success_rate |-> <<SuccessfulTrades(user_trades) * 100, total_trades>>,
              average_return |-> <<SumReturns(user_trades), total_trades>>,
              total_allocation |-> SumAllocation(user_trades),
              risk_adjusted_return |-> 0, top_performing_stocks |-> <<>>]

\* -------------------------------------------------------- Audit Sink
\* _store_failed_log: logs a line and keeps nothing.
StoreFailedLog(q, data_dict) == q

\* _log_to_swarms: only an exception of requests.post reaches the except
\* branch (raise_for_status is commented out in log_agent_data).
LogToSwarmsQueue(q, data_dict, outcome) ==
    IF outcome = "network error" THEN StoreFailedLog(q, data_dict) ELSE q

\* Variant: no try/except around log_agent_data, so an exception of
\* requests.post leaves _log_to_swarms.
LogToSwarmsRaises_Propagates(outcome) == outcome = "network error"

\* _log_to_swarms: `except Exception` catches whatever log_agent_data
\* raises, so nothing leaves the method.
LogToSwarmsRaises(outcome) == FALSE

\* -------------------------------------------------------------- state
\* uuid.uuid4(): a value no earlier call returned.
Uuid4(n) == n + 1

Response(op, code, user_id, args, body) ==
    [op |-> op, code |-> code, user |-> user_id, args |-> args, body |-> body]

NoArgs == [none |-> TRUE]

Init ==
    /\ users = <<>>
    /\ api_keys = <<>>
    /\ trades = <<>>
    /\ uuids = 0
    /\ clock = 0
    /\ inflight = Idle
    /\ swarms = <<>>
    /\ failed_logs = <<>>
    /\ resp = Response("none", 0, NoId, NoArgs, None)
    /\ issued = <<>>
    /\ deleted = {}

\* Keys a client may present: every key issued so far and one that was
\* never issued.
PresentedKeys == DOMAIN api_keys \cup {NoId}

\* The event loop runs one handler at a time.
LoopFree == inflight.pc = "idle"

hist == <<issued, deleted>>


\* ------------------------------------------------------------- actions
\* POST /users
CreateUserFrom(profiles) ==
    /\ LoopFree
    /\ Cardinality(DOMAIN users) < MaxUsers
    /\ \E profile \in profiles :
        LET user_id == Uuid4(uuids)
            api_key == Uuid4(uuids + 1)
            user_data == NewUser(user_id, api_key, profile, clock)
        IN  /\ users' = StoreUser(users, user_id, user_data)
            /\ api_keys' = StoreKey(api_keys, api_key, user_id)
            /\ uuids' = uuids + 2
            /\ resp' = Response("create_user", 200, user_id, NoArgs, user_data)
            /\ issued' = Append(issued, <<user_data.api_key, user_data.id>>)
    /\ UNCHANGED <<trades, clock, inflight, swarms, failed_logs, deleted>>

\* Any route that depends on _get_current_user, called with a key that
\* does not resolve: the dependency raises HTTPException(401) and the
\* handler body does not run.
AuthFail ==
    /\ LoopFree
    /\ \E api_key \in PresentedKeys :
        /\ Lookup(api_keys, users, api_key) = NoId
        /\ resp' = Response("_get_current_user", 401, NoId,
                            [api_key |-> api_key], "Invalid API key")
    /\ UNCHANGED <<users, api_keys, trades, uuids, clock, inflight, swarms,
                   failed_logs, hist>>

\* GET /users/me
GetCurrentUser ==
    /\ LoopFree
    /\ \E api_key \in PresentedKeys :
        LET user_id == Lookup(api_keys, users, api_key)
        IN  /\ user_id # NoId
            /\ users' = Touch(users, user_id, clock)
            /\ resp' = Response("get_current_user", 200, user_id,
                                [api_key |-> api_key], users'[user_id])
    /\ UNCHANGED <<api_keys, trades, uuids, clock, inflight, swarms,
                   failed_logs, hist>>

\* PUT /users/me
UpdateUserWith(updates) ==
    /\ LoopFree
    /\ \E api_key \in PresentedKeys, user_update \in updates :
        LET user_id == Lookup(api_keys, users, api_key)
            touched == Touch(users, user_id, clock)
            updated_data == MergeUpdate(touched[user_id], user_update)
            args == [api_key |-> api_key, user_update |-> user_update]
        IN  /\ user_id # NoId
            /\ IF ~ValidUpdate(user_update)
               THEN /\ users' = touched
                    /\ resp' = Response("update_user", 422, user_id, args,
                                        "validation error")
               ELSE IF ~ValidUser(updated_data)
               THEN /\ users' = touched
                    /\ resp' = Response("update_user", 500, user_id, args,
                                        "Internal Server Error")
               ELSE /\ users' = StoreUser(touched, user_id, updated_data)
                    /\ resp' = Response("update_user", 200, user_id, args,
                                        updated_data)
    /\ UNCHANGED <<api_keys, trades, uuids, clock, inflight, swarms,
                   failed_logs, hist>>

\* Submissions whose handler body has started.
TradesBegun == uuids - 2 * Cardinality(DOMAIN users)

\* POST /trades with a body that TradingTask rejects: 422, the handler
\* body does not run (the key was resolved first).
CreateTradeInvalidOf(tasks) ==
    /\ LoopFree
    /\ \E api_key \in PresentedKeys, task \in tasks :
        LET user_id == Lookup(api_keys, users, api_key)
        IN  /\ user_id # NoId
            /\ ~ValidTask(task)
            /\ users' = Touch(users, user_id, clock)
            /\ resp' = Response("create_trade", 422, user_id,
                                [api_key |-> api_key, task |-> task],
                                "validation error")
    /\ UNCHANGED <<api_keys, trades, uuids, clock, inflight, swarms,
                   failed_logs, hist>>

\* POST /trades, up to the call trading_system.run(task=task.task).
CreateTradeBeginOf(tasks) ==
    /\ LoopFree
    /\ TradesBegun < MaxTrades
    /\ \E api_key \in PresentedKeys, task \in tasks :
        LET user_id == Lookup(api_keys, users, api_key)
            trade_id == Uuid4(uuids)
        IN  /\ user_id # NoId
            /\ ValidTask(task)
            /\ users' = Touch(users, user_id, clock)
            /\ uuids' = uuids + 1
            /\ inflight' = [pc |-> "run", user_id |-> user_id,
                            args |-> [api_key |-> api_key, task |-> task],
                            trade_response |->
                                NewTrade(trade_id, user_id, task, clock)]
    /\ UNCHANGED <<api_keys, trades, clock, swarms, failed_logs, resp, hist>>

\* POST /trades when the AutoFund constructor raises: the except branch
\* answers 500 before a TradeResponse exists.
CreateTradeCtorRaisesOf(tasks, errors) ==
    /\ LoopFree
    /\ TradesBegun < MaxTrades
    /\ \E api_key \in PresentedKeys, task \in tasks, e \in errors :
        LET user_id == Lookup(api_keys, users, api_key)
        IN  /\ user_id # NoId
            /\ ValidTask(task)
            /\ users' = Touch(users, user_id, clock)
            /\ uuids' = uuids + 1
            /\ resp' = Response("create_trade", 500, user_id,
                                [api_key |-> api_key, task |-> task,
                                 trade_id |-> Uuid4(uuids),
                                 raised_by |-> "AutoFund"], e)
    /\ UNCHANGED <<api_keys, trades, clock, inflight, swarms, failed_logs, hist>>

\* The data dictionary create_trade hands to _log_to_swarms.
SwarmsData(trade_response) ==
    [trade_id |-> trade_response.id, user_id |-> trade_response.user_id,
     task |-> trade_response.task, result |-> trade_response.result,
     performance_metrics |-> trade_response.performance_metrics]

\* trading_system.run returned: the rest of the try block.
EngineReturnsWith(results, outcomes) ==
    /\ inflight.pc = "run"
    /\ \E result \in results, outcome \in outcomes :
        LET trade_response == CompleteTrade(inflight.trade_response, result, clock)
            data_dict == SwarmsData(trade_response)
            args == inflight.args @@ [trade_id |-> trade_response.id]
        IN  /\ trades' = StoreTrade(trades, trade_response)
            /\ swarms' = Append(swarms, [data |-> data_dict, outcome |-> outcome])
            /\ failed_logs' = LogToSwarmsQueue(failed_logs, data_dict, outcome)
            /\ IF LogToSwarmsRaises(outcome)
               THEN resp' = Response("create_trade", 500, inflight.user_id,
                                     args @@ [raised_by |-> "_log_to_swarms"],
                                     outcome)
               ELSE resp' = Response("create_trade", 200, inflight.user_id,
                                     args, trade_response)
    /\ inflight' = Idle
    /\ UNCHANGED <<users, api_keys, uuids, clock, hist>>

\* trading_system.run raised: the except branch.
EngineRaisesWith(errors) ==
    /\ inflight.pc = "run"
    /\ \E e \in errors :
        resp' = Response("create_trade", 500, inflight.user_id,
                         inflight.args @@ [trade_id |-> inflight.trade_response.id,
                                           raised_by |-> "run"],
                         e)
    /\ inflight' = Idle
    /\ UNCHANGED <<users, api_keys, trades, uuids, clock, swarms, failed_logs, hist>>

StatusFilters == {None} \cup TradeStatus

\* GET /trades
ListTradesWith(filters, maxSkip, maxLimit) ==
    /\ LoopFree
    /\ \E api_key \in PresentedKeys, status \in filters,
          skip \in 0..maxSkip, limit \in 1..maxLimit :
        LET user_id == Lookup(api_keys, users, api_key)
        IN  /\ user_id # NoId
            /\ limit <= LimitCap
            /\ users' = Touch(users, user_id, clock)
            /\ resp' = Response("list_trades", 200, user_id,
                                [api_key |-> api_key, status |-> status,
                                 skip |-> skip, limit |-> limit],
                                ListTradesResult(trades, user_id, status, skip, limit))
    /\ UNCHANGED <<api_keys, trades, uuids, clock, inflight, swarms,
                   failed_logs, hist>>

\* Trade ids a client may ask for: every trade id create_trade has drawn so
\* far and one that was never drawn.
PresentedTradeIds == ((1..uuids) \ (DOMAIN users \cup DOMAIN api_keys)) \cup {NoId}

\* GET /trades/{trade_id}
GetTrade ==
    /\ LoopFree
    /\ \E api_key \in PresentedKeys, trade_id \in PresentedTradeIds :
        LET user_id == Lookup(api_keys, users, api_key)
            code == GetTradeCode(trades, trade_id, user_id)
        IN  /\ user_id # NoId
            /\ users' = Touch(users, user_id, clock)
            /\ resp' = Response("get_trade", code, user_id,
                                [api_key |-> api_key, trade_id |-> trade_id],
                                IF code = 200 THEN TradeOf(trades, trade_id)
                                ELSE IF code = 404 THEN "Trade not found"
                                ELSE "Not authorized to access this trade")
    /\ UNCHANGED <<api_keys, trades, uuids, clock, inflight, swarms,
                   failed_logs, hist>>

\* DELETE /trades/{trade_id}
DeleteTrade ==
    /\ LoopFree
    /\ \E api_key \in PresentedKeys, trade_id \in PresentedTradeIds :
        LET user_id == Lookup(api_keys, users, api_key)
            code == DeleteTradeCode(trades, trade_id, user_id)
        IN  /\ user_id # NoId
            /\ users' = Touch(users, user_id, clock)
            /\ trades' = IF code = 200 THEN RemoveTrade(trades, trade_id) ELSE trades
            /\ deleted' = IF code = 200 THEN deleted \cup {trade_id} ELSE deleted
            /\ resp' = Response("delete_trade", code, user_id,
                                [api_key |-> api_key, trade_id |-> trade_id],
                                IF code = 200 THEN "Trade deleted successfully"
                                ELSE IF code = 404 THEN "Trade not found"
                                ELSE "Not authorized to delete this trade")
    /\ UNCHANGED <<api_keys, uuids, clock, inflight, swarms, failed_logs, issued>>

\* GET /analytics/history
GetHistoricalAnalyticsOver(maxDays) ==
    /\ LoopFree
    /\ \E api_key \in PresentedKeys, days \in 1..maxDays :
        LET user_id == Lookup(api_keys, users, api_key)
            start_date == clock - days
            args == [api_key |-> api_key, days |-> days, now |-> clock]
        IN  /\ user_id # NoId
            /\ days <= MaxDays
            /\ users' = Touch(users, user_id, clock)
            /\ IF AnalyticsRaises(TradesInWindow(trades, user_id, start_date))
               THEN resp' = Response("get_historical_analytics", 500, user_id,
                                     args, "Internal Server Error")
               ELSE resp' = Response("get_historical_analytics", 200, user_id,
                                     args, AnalyticsResult(trades, user_id, start_date))
    /\ UNCHANGED <<api_keys, trades, uuids, clock, inflight, swarms,
                   failed_logs, hist>>

\* Time passes: datetime.now(timezone.utc) returns a later value.
TickTo(maxTime) ==
    /\ \E t \in 0..maxTime : t > clock /\ clock' = t
    /\ UNCHANGED <<users, api_keys, trades, uuids, inflight, swarms,
                   failed_logs, resp, hist>>

\* --------------------------------------------------------- specification
\* The requests explored: one profile per registration, one update that
\* changes the profile and two that are refused, one accepted and one
\* rejected task, one engine result, a post that the endpoint accepts.
SpecProfiles == {p \in Profiles : p.username = "trader_1"}
SpecUpdates == {u \in Updates : u.fund_name # Unset}
SpecTasks == {t \in Tasks : t.allocation = 1 \/ Len(t.stocks) = 0}
SpecFilters == {None, FAILED}
SpecResults == {r \in EngineResults : r = "hold"}
SpecOutcomes == {o \in SwarmsOutcomes : o = "ok"}

CreateUser == CreateUserFrom(SpecProfiles)
UpdateUser == UpdateUserWith(SpecUpdates)
CreateTradeInvalid == CreateTradeInvalidOf(SpecTasks)
CreateTradeBegin == CreateTradeBeginOf(SpecTasks)
CreateTradeCtorRaises == CreateTradeCtorRaisesOf(SpecTasks, {"engine down"})
EngineReturns == EngineReturnsWith(SpecResults, SpecOutcomes)
EngineRaises == EngineRaisesWith(EngineErrors)
ListTrades == ListTradesWith(SpecFilters, MaxSkip, MaxLimit)
GetHistoricalAnalytics == GetHistoricalAnalyticsOver(MaxLookback)
Tick == TickTo(MaxTime)

Next ==
    \/ CreateUser
    \/ AuthFail
    \/ GetCurrentUser
    \/ UpdateUser
    \/ CreateTradeInvalid
    \/ CreateTradeBegin
    \/ CreateTradeCtorRaises
    \/ EngineReturns
    \/ EngineRaises
    \/ ListTrades
    \/ GetTrade
    \/ DeleteTrade
    \/ GetHistoricalAnalytics
    \/ Tick

Spec == Init /\ [][Next]_vars


\* ----------------------------------------------- specification: resolve
\* User declares is_active (default True) and no route of api.py ever
\* writes it.  The step below is a write to api.users from outside the
\* routes (the dictionaries are public attributes of AutoHedgeAPI) that
\* clears the flag of one user: the only way a store with an inactive user
\* comes about.
Deactivate ==
    /\ LoopFree
    /\ \E user_id \in DOMAIN users :
        /\ users[user_id].is_active
        /\ users' = [users EXCEPT ![user_id] = [@ EXCEPT !.is_active = FALSE]]
    /\ UNCHANGED <<api_keys, trades, uuids, clock, inflight, swarms,
                   failed_logs, resp, hist>>

\* Registration, the routes that only resolve the key, and deactivation.
NextResolve ==
    \/ CreateUser
    \/ AuthFail
    \/ GetCurrentUser
    \/ UpdateUser
    \/ Deactivate
    \/ Tick

SpecResolve == Init /\ [][NextResolve]_vars

\* ----------------------------------------------- specification: profile
\* Registration with either profile and PUT /users/me with every payload.
NextUsers ==
    \/ CreateUserFrom(Profiles)
    \/ AuthFail
    \/ GetCurrentUser
    \/ UpdateUserWith(Updates)
    \/ Tick

SpecUsers == Init /\ [][NextUsers]_vars

\* -------------------------------------------- specification: submission
\* POST /trades with every task, both engine results, both engine errors
\* and every outcome of the post to the Swarms endpoint.
NextSubmit ==
    \/ CreateUser
    \/ AuthFail
    \/ CreateTradeInvalidOf(Tasks)
    \/ CreateTradeBeginOf(Tasks)
    \/ CreateTradeCtorRaisesOf(Tasks, EngineErrors)
    \/ EngineReturnsWith(EngineResults, SwarmsOutcomes)
    \/ EngineRaisesWith(EngineErrors)
    \/ Tick

SpecSubmit == Init /\ [][NextSubmit]_vars

\* --------------------------------------------- specification: analytics
\* Submissions with either valid task over three days, and the analytics
\* route with a lookback of one or two days, so that a record can be older
\* than the window.
WindowTasks == {t \in Tasks : ValidTask(t)}

NextAnalytics ==
    \/ CreateUser
    \/ CreateTradeBeginOf(WindowTasks)
    \/ EngineReturns
    \/ EngineRaisesWith({"engine down"})
    \/ DeleteTrade
    \/ GetHistoricalAnalyticsOver(MaxWindowDays)
    \/ TickTo(MaxWindowTime)

SpecAnalytics == Init /\ [][NextAnalytics]_vars

\* ---------------------------------------------- specification: liveness
\* Time keeps passing; nothing obliges the engine to answer.  The handler
\* has no step of its own between the call of trading_system.run and its
\* return, so there is no program step to be fair to while a call is in
\* flight.
NextLive ==
    \/ CreateUser
    \/ CreateTradeBegin
    \/ EngineReturns
    \/ EngineRaises
    \/ GetTrade
    \/ Tick

SpecLive == Init /\ [][NextLive]_vars /\ WF_vars(Tick)

\* ================================================================ claims
LedgerIds == {trades[i].id : i \in 1..Len(trades)}
MetricKeys == {"return_percentage", "sharpe_ratio", "max_drawdown", "volatility"}

\* A create_trade call whose trading_system.run raised has just answered
\* (nothing but the clock has moved since).
SubmissionFailed ==
    /\ LoopFree /\ resp.op = "create_trade" /\ resp.code = 500
    /\ resp.args.raised_by = "run"

\* C1: when the Fund Engine call of a submission fails, the ledger holds a
\* record of that trade with status FAILED at the moment the call returns,
\* and the caller receives a 500 that carries the cause.
C1_FailedRecordKept ==
    SubmissionFailed =>
        /\ resp.body \in EngineErrors
        /\ HasTrade(trades, resp.args.trade_id)
        /\ TradeOf(trades, resp.args.trade_id).status = FAILED

\* C2: whenever no submission call is in progress, no record of the ledger
\* is EXECUTING or PENDING.
C2_NoNonTerminalAtRest ==
    LoopFree => \A i \in 1..Len(trades) : trades[i].status \notin {EXECUTING, PENDING}

\* C2 witness: one submission has returned with a record stored and another
\* has returned with a failure.
C2_Witness ==
    /\ SubmissionFailed
    /\ Len(trades) >= 1
    /\ resp.args.trade_id \notin LedgerIds

\* C3: whenever the Fund Engine call of a submission succeeds, the record
\* returned and the record stored under the new trade id are the same, with
\* status COMPLETED, executed_at set, the engine's result, the submitting
\* user's id and a metrics map with exactly the four keys.
C3_SuccessRecord ==
    [][\A r \in SpecResults :
        inflight.pc = "run" /\ EngineReturnsWith({r}, SwarmsOutcomes) =>
            LET id == inflight.trade_response.id
            IN  /\ resp'.op = "create_trade" /\ resp'.code = 200
                /\ resp'.body.id = id
                /\ resp'.body.status = COMPLETED
                /\ resp'.body.executed_at # NoTime
                /\ resp'.body.result = r
                /\ resp'.body.user_id = api_keys[inflight.args.api_key]
                /\ resp'.body.task = inflight.args.task
                /\ DOMAIN resp'.body.performance_metrics = MetricKeys
                /\ HasTrade(trades', id)
                /\ TradeOf(trades', id) = resp'.body
                /\ Cardinality({i \in 1..Len(trades') : trades'[i].id = id}) = 1]_vars

\* C3 witness: a submission has just answered 200 with its record.
C3_Witness ==
    /\ LoopFree /\ resp.op = "create_trade" /\ resp.code = 200
    /\ resp.body.id \in LedgerIds

\* C4: get_trade answers 404 exactly when the id is absent, 403 exactly when
\* the record exists and belongs to another user, and the stored record
\* exactly when the requester owns it; a refusal carries no record.
C4_GetOutcome ==
    resp.op = "get_trade" =>
        LET id == resp.args.trade_id
            requester == api_keys[resp.args.api_key]
        IN  /\ resp.user = requester
            /\ resp.code \in {200, 403, 404}
            /\ (resp.code = 404) = (id \notin LedgerIds)
            /\ (resp.code = 403) =
                  (id \in LedgerIds /\ TradeOf(trades, id).user_id # requester)
            /\ resp.code = 200 =>
                  /\ resp.body = TradeOf(trades, id)
                  /\ resp.body.user_id = requester
            /\ resp.code # 200 =>
                  resp.body \in {"Trade not found",
                                 "Not authorized to access this trade"}

\* C4 witness: a user asked for another user's trade and was refused.
C4_Witness ==
    /\ resp.op = "get_trade" /\ resp.code = 403
    /\ resp.args.trade_id \in LedgerIds

\* C5: delete_trade answers 404 on an absent id and 403 on another user's
\* record and leaves the ledger as it was; for the owner it removes that
\* record and no other.
C5_DeleteFrame ==
    [][resp'.op = "delete_trade" /\ DeleteTrade =>
        LET id == resp'.args.trade_id
            requester == api_keys[resp'.args.api_key]
        IN  /\ resp'.code \in {200, 403, 404}
            /\ (resp'.code = 404) = (id \notin LedgerIds)
            /\ (resp'.code = 403) =
                  (id \in LedgerIds /\ TradeOf(trades, id).user_id # requester)
            /\ resp'.code # 200 => trades' = trades
            /\ resp'.code = 200 =>
                  trades' = SelectSeq(trades, LAMBDA t : t.id # id)
                  /\ Len(trades') = Len(trades) - 1]_vars

\* C5 witness: an owner has deleted one record and another record remains.
C5_Witness ==
    /\ resp.op = "delete_trade" /\ resp.code = 200
    /\ resp.args.trade_id \in deleted
    /\ Len(trades) >= 1


\* C6: once delete_trade has removed a trade, the id is gone for good: it
\* is never stored again, every later get_trade or delete_trade of it by
\* any user answers 404, and no list contains it.
C6_DeletedStaysDeleted ==
    [][\A id \in deleted :
        /\ ~HasTrade(trades', id)
        /\ resp'.op \in {"get_trade", "delete_trade"}
              /\ resp'.args.trade_id = id /\ (GetTrade \/ DeleteTrade)
              => resp'.code = 404
        /\ resp'.op = "list_trades" /\ ListTrades
              => \A j \in 1..Len(resp'.body) : resp'.body[j].id # id]_vars

\* C6 witness: the owner's second delete of the same trade answered 404.
C6_Witness ==
    /\ resp.op = "delete_trade" /\ resp.code = 404
    /\ resp.args.trade_id \in deleted
    /\ \E i \in 1..Len(swarms) :
          /\ swarms[i].data.trade_id = resp.args.trade_id
          /\ swarms[i].data.user_id = resp.user

\* C7: every record list_trades returns belongs to the requester and, when
\* a status filter was given, has that status.
C7_ListOwnRecordsOnly ==
    resp.op = "list_trades" =>
        /\ resp.user = api_keys[resp.args.api_key]
        /\ \A j \in 1..Len(resp.body) :
              /\ resp.body[j].user_id = resp.user
              /\ resp.args.status # None => resp.body[j].status = resp.args.status
              /\ resp.body[j].id \in LedgerIds
              /\ TradeOf(trades, resp.body[j].id) = resp.body[j]

\* C7 witness: a list came back non-empty while the ledger also holds a
\* record of another user.
C7_Witness ==
    /\ resp.op = "list_trades" /\ Len(resp.body) >= 1
    /\ \E i \in 1..Len(trades) : trades[i].user_id # resp.user

\* The requester's records that pass the status filter of the last list.
Matching ==
    {i \in 1..Len(trades) :
        /\ trades[i].user_id = resp.user
        /\ (resp.args.status = None \/ trades[i].status = resp.args.status)}

\* C8: the list returned is the slice skip .. skip+limit-1 of the
\* requester's filtered records in descending order of created_at: it is
\* sorted, no longer than limit, as long as the records allow, without
\* repetition, and its k-th element has the rank skip+k.
C8_ListSortedPage ==
    resp.op = "list_trades" =>
        LET body == resp.body
            skip == resp.args.skip
            limit == resp.args.limit
            n == Cardinality(Matching)
            newer(t) == Cardinality({i \in Matching : trades[i].created_at > t.created_at})
            notOlder(t) == Cardinality({i \in Matching : trades[i].created_at >= t.created_at})
        IN  /\ Len(body) <= limit
            /\ Len(body) = (IF n - skip <= 0 THEN 0
                            ELSE IF n - skip < limit THEN n - skip ELSE limit)
            /\ \A j, k \in 1..Len(body) :
                  j < k => /\ body[j].created_at >= body[k].created_at
                           /\ body[j].id # body[k].id
            /\ \A k \in 1..Len(body) :
                  /\ \E i \in Matching : trades[i] = body[k]
                  /\ newer(body[k]) < skip + k
                  /\ notOlder(body[k]) >= skip + k

\* C8 witness: the second page of a user with two records created at
\* different times.
C8_Witness ==
    /\ resp.op = "list_trades" /\ resp.args.skip = 1 /\ Len(resp.body) = 1
    /\ \E i \in Matching : trades[i].created_at > resp.body[1].created_at


\* C9: after any sequence of requests, the key that create_user returned
\* to a user resolves to that user, whose record still carries the same id
\* and the same key, as long as the user is active; and GET /users/me with
\* that key answers with that user.
C9_IssuedKeyResolves ==
    /\ \A n \in 1..Len(issued) :
          LET api_key == issued[n][1]
              user_id == issued[n][2]
          IN  (user_id \in DOMAIN users => users[user_id].is_active) =>
                 /\ Lookup(api_keys, users, api_key) = user_id
                 /\ users[user_id].id = user_id
                 /\ users[user_id].api_key = api_key
    /\ resp.op = "get_current_user" =>
          /\ resp.code = 200
          /\ \E n \in 1..Len(issued) :
                issued[n] = <<resp.args.api_key, resp.body.id>>

\* C9 witness: both users are registered, one has changed its profile, a
\* trade has been stored and one deleted, and GET /users/me has answered.
C9_Witness ==
    /\ Len(issued) = MaxUsers
    /\ resp.op = "get_current_user"
    /\ users[resp.user].fund_name = "Fund X"
    /\ deleted # {}
    /\ Len(trades) >= 1

\* C10: api_keys is a bijection between the keys issued and the users
\* registered: every key maps to an existing user, every user's stored key
\* maps back to it, no two keys share a user, and every registration added
\* one new user and one new key.
C10_KeyUserBijection ==
    /\ \A k \in DOMAIN api_keys : api_keys[k] \in DOMAIN users
    /\ \A u \in DOMAIN users :
          /\ users[u].api_key \in DOMAIN api_keys
          /\ api_keys[users[u].api_key] = u
    /\ \A k1, k2 \in DOMAIN api_keys : api_keys[k1] = api_keys[k2] => k1 = k2
    /\ Cardinality(DOMAIN users) = Len(issued)
    /\ Cardinality(DOMAIN api_keys) = Len(issued)
    /\ \A n \in 1..Len(issued) :
          /\ issued[n][1] \in DOMAIN api_keys
          /\ issued[n][2] \in DOMAIN users
          /\ \A m \in 1..Len(issued) :
                m # n => issued[m][1] # issued[n][1] /\ issued[m][2] # issued[n][2]

\* C10 witness: a second registration has just answered, after the first
\* user changed its profile.
C10_Witness ==
    /\ Len(issued) >= 2
    /\ resp.op = "create_user"
    /\ \E u \in DOMAIN users : u # resp.user /\ users[u].fund_name = "Fund X"

\* C11: a request whose key is unknown, or whose key belongs to a user with
\* is_active false, is answered 401 and changes neither users nor trades.
C11_UnknownOrInactiveRefused ==
    [][resp'.op \in {"_get_current_user", "get_current_user", "update_user"}
       /\ (AuthFail \/ GetCurrentUser \/ UpdateUser) =>
        LET api_key == resp'.args.api_key
            unknown == api_key \notin DOMAIN api_keys
            inactive == ~unknown /\ ~users[api_keys[api_key]].is_active
        IN  unknown \/ inactive =>
                /\ resp'.code = 401
                /\ users' = users
                /\ trades' = trades]_vars

UpdatableFields == {"fund_name", "fund_description", "email"}
FixedFields == {"id", "api_key", "username", "created_at"}

\* C12: PUT /users/me changes, in the requester's record, only fields among
\* fund_name, fund_description and email that the payload carries, each to
\* the value carried; a field the payload omits keeps its value; id,
\* api_key, username and created_at keep theirs; no other user's record and
\* no key changes.
C12_UpdateFrame ==
    [][resp'.op = "update_user" /\ UpdateUserWith(Updates) =>
        LET upd == resp'.args.user_update
            u == api_keys[resp'.args.api_key]
        IN  /\ DOMAIN users' = DOMAIN users
            /\ api_keys' = api_keys
            /\ \A v \in DOMAIN users : v # u => users'[v] = users[v]
            /\ \A f \in FixedFields : users'[u][f] = users[u][f]
            /\ users'[u].is_active = users[u].is_active
            /\ \A f \in UpdatableFields :
                  /\ upd[f] = Unset => users'[u][f] = users[u][f]
                  /\ users'[u][f] # users[u][f] => users'[u][f] = upd[f]
                  /\ resp'.code = 200 /\ upd[f] # Unset => users'[u][f] = upd[f]
            /\ resp'.code = 200 => resp'.body = users'[u]]_vars

\* C12 witness: with two users registered, an update that carried email and
\* fund_description and omitted fund_name was applied to a user whose
\* description had been set.
C12_Witness ==
    /\ Cardinality(DOMAIN users) = 2
    /\ resp.op = "update_user" /\ resp.code = 200
    /\ resp.args.user_update.fund_name = Unset
    /\ resp.args.user_update.email = "x@example.com"
    /\ users[resp.user].email = "x@example.com"
    /\ users[resp.user].username = "trader_2"
    /\ users[resp.user].fund_name = "Fund Two"
    /\ users[resp.user].fund_description = None

\* A task as the claim describes an invalid one.
Malformed(task) ==
    \/ Len(task.stocks) < MinStocks
    \/ Len(task.task) < MinTaskLen
    \/ task.allocation <= 0
    \/ (task.risk_level # NoRisk
        /\ (task.risk_level < MinRisk \/ task.risk_level > MaxRisk))

\* C13: a submission whose task has an empty stock list, a description
\* shorter than 10 characters, an allocation of 0 or less, or a risk level
\* outside 1..10 is answered 422; the engine is not invoked for it, no
\* trade id is drawn, nothing is posted and the ledger is unchanged.
C13_InvalidTaskRefused ==
    [][LoopFree =>
        /\ inflight'.pc = "run" => ~Malformed(inflight'.args.task)
        /\ resp'.op = "create_trade"
              /\ (CreateTradeInvalidOf(Tasks)
                  \/ CreateTradeCtorRaisesOf(Tasks, EngineErrors))
              /\ Malformed(resp'.args.task)
              => /\ resp'.code = 422
                 /\ inflight' = Idle
                 /\ UNCHANGED <<trades, uuids, swarms, failed_logs>>]_vars

\* C13 witness: with one record in the ledger, a submission with
\* allocation 0 has just been refused.
C13_Witness ==
    /\ LoopFree /\ resp.op = "create_trade" /\ resp.code = 422
    /\ resp.args.task.allocation = 0
    /\ Len(trades) = 1 /\ Len(swarms) = 1

\* The posts to the Swarms endpoint that carry the given trade id.
PostsOf(trade_id) == {i \in 1..Len(swarms) : swarms[i].data.trade_id = trade_id}

\* C14: when a submission whose engine call was made has returned, exactly
\* one audit record of that trade has been handed to the Swarms endpoint:
\* with the result and the metrics after a success, with a failure marker
\* after a failure.
C14_OneAuditPerSubmission ==
    LoopFree /\ resp.op = "create_trade"
        /\ (resp.code = 200 \/ SubmissionFailed) =>
        /\ Cardinality(PostsOf(resp.args.trade_id)) = 1
        /\ \A i \in PostsOf(resp.args.trade_id) :
              /\ swarms[i].data.user_id = resp.user
              /\ swarms[i].data.task = resp.args.task
              /\ resp.code = 200 =>
                    /\ swarms[i].data.result = resp.body.result
                    /\ swarms[i].data.performance_metrics =
                          resp.body.performance_metrics
              /\ resp.code = 500 => swarms[i].data.result \notin EngineResults

\* C15: when the engine call of a submission returns, the response and the
\* ledger that result are the same whatever became of the post to the
\* Swarms endpoint (accepted, answered with an error status, or failed
\* with a network error): they are determined by the state before and the
\* engine's result alone, and the response is never an error raised by
\* _log_to_swarms.
C15_DeliveryOutcomeIrrelevant ==
    [][inflight.pc = "run" /\ EngineReturnsWith(EngineResults, SwarmsOutcomes) =>
        LET post == swarms'[Len(swarms')]
            record == CompleteTrade(inflight.trade_response, post.data.result, clock)
        IN  /\ post.outcome \in SwarmsOutcomes
            /\ resp' = Response("create_trade", 200, inflight.user_id,
                                inflight.args @@ [trade_id |-> record.id], record)
            /\ trades' = Append(trades, record)
            /\ UNCHANGED <<users, api_keys>>]_vars

\* C15 witness: two submissions with the same engine result have both been
\* answered 200 and stored; the post of the first was accepted and the post
\* of the second failed with a network error.
C15_Witness ==
    /\ LoopFree /\ Len(trades) = 2 /\ Len(swarms) = 2
    /\ swarms[1].outcome = "ok"
    /\ swarms[2].outcome = "network error"
    /\ trades[1].result = trades[2].result
    /\ resp.op = "create_trade" /\ resp.code = 200
    /\ resp.body = trades[2]
    /\ swarms[2].data.trade_id = trades[2].id

\* C16: every post to the Swarms endpoint is attempted once, and the
\* pending-retry queue holds exactly the records whose post failed, by a
\* network error or by an error status; an accepted post adds nothing.
C16_FailedDeliveryQueued ==
    LET failed == {i \in 1..Len(swarms) : swarms[i].outcome # "ok"}
    IN  /\ \A i, j \in 1..Len(swarms) :
              swarms[i].data.trade_id = swarms[j].data.trade_id => i = j
        /\ \A i \in failed :
              \E j \in 1..Len(failed_logs) : failed_logs[j] = swarms[i].data
        /\ Len(failed_logs) = Cardinality(failed)

\* Position of a status on the path PENDING -> EXECUTING -> terminal.
StatusRank(status) ==
    IF status = PENDING THEN 0 ELSE IF status = EXECUTING THEN 1 ELSE 2

Terminal == {COMPLETED, FAILED}

\* C17: in every step, a record that stays in the ledger keeps a terminal
\* status unchanged and never moves backwards on the path PENDING ->
\* EXECUTING -> {COMPLETED, FAILED}; the record of the running submission
\* enters the ledger no earlier on the path than it was during the call.
C17_StatusMonotonic ==
    [][/\ \A i \in 1..Len(trades), j \in 1..Len(trades') :
            trades[i].id = trades'[j].id =>
                /\ trades[i].status \in Terminal =>
                      trades'[j].status = trades[i].status
                /\ StatusRank(trades'[j].status) >= StatusRank(trades[i].status)
       /\ inflight.pc = "run" =>
            /\ inflight'.pc = "run" => inflight' = inflight
            /\ \A j \in 1..Len(trades') :
                  trades'[j].id = inflight.trade_response.id =>
                      StatusRank(trades'[j].status) >=
                          StatusRank(inflight.trade_response.status)]_vars

\* C17 witness: a record completed earlier is still COMPLETED while a later
\* submission of the same user is executing, after time has passed and the
\* user has changed its profile.
C17_Witness ==
    /\ inflight.pc = "run"
    /\ inflight.trade_response.status = EXECUTING
    /\ Len(trades) = 1 /\ trades[1].status = COMPLETED
    /\ trades[1].user_id = inflight.user_id
    /\ clock > trades[1].executed_at
    /\ users[inflight.user_id].fund_name = "Fund X"

\* The requester's records inside the window of the last analytics request
\* (the ledger changes only in steps that also replace the response).
InWindow ==
    {i \in 1..Len(trades) :
        /\ trades[i].user_id = resp.user
        /\ trades[i].created_at >= resp.args.now - resp.args.days}

\* C18: when the requester has no record created within the lookback
\* window, the analytics route answers 200 with total_trades,
\* success_rate, average_return, total_allocation and risk_adjusted_return
\* all zero and top_performing_stocks empty, whatever other users' records
\* the window holds; no quotient has a zero divisor.
C18_EmptyWindowZeroSnapshot ==
    resp.op = "get_historical_analytics" /\ InWindow = {} =>
        /\ resp.code = 200
        /\ resp.body.total_trades = 0
        /\ resp.body.success_rate[1] = 0 /\ resp.body.success_rate[2] # 0
        /\ resp.body.average_return[1] = 0 /\ resp.body.average_return[2] # 0
        /\ resp.body.total_allocation = 0
        /\ resp.body.risk_adjusted_return = 0
        /\ resp.body.top_performing_stocks = <<>>

\* C18 witness: the requester's only record is older than the window and
\* another user's record lies inside it.
C18_Witness ==
    /\ resp.op = "get_historical_analytics" /\ InWindow = {}
    /\ \E i \in 1..Len(trades) :
          /\ trades[i].user_id = resp.user
          /\ trades[i].created_at < resp.args.now - resp.args.days
    /\ \E i \in 1..Len(trades) :
          /\ trades[i].user_id # resp.user
          /\ trades[i].created_at >= resp.args.now - resp.args.days

RECURSIVE AllocationOver(_)
\* Sum of the task allocations of the records at the given positions.
AllocationOver(S) ==
    IF S = {} THEN 0
    ELSE LET i == CHOOSE i \in S : TRUE
         IN  trades[i].task.allocation + AllocationOver(S \ {i})

RECURSIVE ReturnOver(_)
\* Sum of the return_percentage metric of the records at the given
\* positions, 0 for a record without it.
ReturnOver(S) ==
    IF S = {} THEN 0
    ELSE LET i == CHOOSE i \in S : TRUE
             metrics == trades[i].performance_metrics
         IN  (IF "return_percentage" \in DOMAIN metrics
              THEN metrics.return_percentage ELSE 0) + ReturnOver(S \ {i})

\* C19: when the requester has records created within the window, the
\* analytics route answers with total_trades = their number, success_rate
\* = (those COMPLETED) / total x 100, average_return = the mean of their
\* return_percentage, and total_allocation = the sum of their allocations.
\* A quotient <<a, b>> equals c / d exactly when a * d = c * b.
C19_WindowAggregates ==
    resp.op = "get_historical_analytics" /\ InWindow # {} =>
        LET total == Cardinality(InWindow)
            completed == Cardinality({i \in InWindow : trades[i].status = COMPLETED})
        IN  /\ resp.code = 200
            /\ resp.body.total_trades = total
            /\ resp.body.success_rate[2] # 0
            /\ resp.body.success_rate[1] * total
                  = completed * 100 * resp.body.success_rate[2]
            /\ resp.body.average_return[2] # 0
            /\ resp.body.average_return[1] * total
                  = ReturnOver(InWindow) * resp.body.average_return[2]
            /\ resp.body.total_allocation = AllocationOver(InWindow)

\* C19 witness: the requester has a record older than the window and one
\* inside it with a different allocation, and another user has a record
\* inside the window.
C19_Witness ==
    /\ resp.op = "get_historical_analytics" /\ resp.code = 200
    /\ resp.body.total_trades = 1
    /\ \E i, j \in 1..Len(trades) :
          /\ trades[i].user_id = resp.user /\ i \in InWindow
          /\ trades[j].user_id = resp.user /\ j \notin InWindow
          /\ trades[i].task.allocation # trades[j].task.allocation

\* C20: when the only registered user has made N valid submissions, in any
\* order of arrival and with any engine outcomes, and all of them have
\* returned, the ledger holds exactly N records, with pairwise distinct
\* ids, all owned by that user.
C20_OneRecordPerSubmission ==
    LoopFree /\ Cardinality(DOMAIN users) = 1 /\ deleted = {} =>
        /\ Len(trades) = TradesBegun
        /\ \A i, j \in 1..Len(trades) : trades[i].id = trades[j].id => i = j
        /\ \A i \in 1..Len(trades) : trades[i].user_id \in DOMAIN users

\* C21: an engine call in flight never blocks all other request handling:
\* while a submission waits on AutoFund.run, a read (get, list, analytics)
\* by a registered user can still be served.
C21_ReadsServedDuringEngineCall ==
    inflight.pc = "run" =>
        ENABLED (GetTrade \/ ListTrades \/ GetHistoricalAnalytics)

\* C22: every submission eventually returns, even if the engine never
\* answers: a call of trading_system.run in flight leads to the handler
\* having returned.
C22_SubmissionReturns ==
    (inflight.pc = "run") ~> (inflight.pc = "idle")

\* C23: at every moment at which the engine call of a submission is in
\* flight, the ledger already holds that trade's record, with status
\* EXECUTING and the submitter as owner.
C23_StoredBeforeEngineCall ==
    inflight.pc = "run" =>
        /\ HasTrade(trades, inflight.trade_response.id)
        /\ TradeOf(trades, inflight.trade_response.id).status = EXECUTING
        /\ TradeOf(trades, inflight.trade_response.id).user_id = inflight.user_id

\* executed_at and result of a record are both unset, or both set, and
\* unset exactly when the record is not terminal.
SetTogether(t) ==
    /\ (t.executed_at = NoTime) = (t.result = None)
    /\ (t.executed_at = NoTime) = (t.status \notin Terminal)

\* C24: every stored record, and the record of the running submission, has
\* executed_at and result both unset or both set, unset exactly while it is
\* EXECUTING; the step that takes a record out of EXECUTING sets both; and
\* a stored record's executed_at and result never change afterwards.
C24_ExecutedAtAndResultTogether ==
    [][/\ \A j \in 1..Len(trades') : SetTogether(trades'[j])
       /\ inflight'.pc = "run" =>
            /\ SetTogether(inflight'.trade_response)
            /\ inflight'.trade_response.status = EXECUTING
       /\ inflight.pc = "run" /\ inflight'.pc = "idle" =>
            \A j \in 1..Len(trades') :
                trades'[j].id = inflight.trade_response.id =>
                    /\ trades'[j].status \in Terminal
                    /\ trades'[j].executed_at = clock
                    /\ trades'[j].result \in EngineResults
       /\ \A i \in 1..Len(trades), j \in 1..Len(trades') :
            trades[i].id = trades'[j].id =>
                /\ trades'[j].executed_at = trades[i].executed_at
                /\ trades'[j].result = trades[i].result]_vars

\* C24 witness: a record executed on an earlier day is in the ledger with
\* both fields set while a later submission, with both unset, is executing.
C24_Witness ==
    /\ inflight.pc = "run"
    /\ inflight.trade_response.executed_at = NoTime
    /\ inflight.trade_response.result = None
    /\ Len(trades) = 1
    /\ trades[1].result \in EngineResults
    /\ trades[1].executed_at # NoTime
    /\ trades[1].executed_at < clock

\* C25: a stored record is changed by no step; the only step that removes
\* one is a delete_trade of that id answered 200 to its owner, and it
\* removes nothing else; registrations, profile updates, reads (get, list,
\* analytics) and refused requests leave the ledger, its records and their
\* order exactly as they were, and a submission only appends its own record.
C25_StoredRecordFrame ==
    [][\/ trades' = trades
       \/ /\ inflight.pc = "run" /\ inflight'.pc = "idle"
          /\ Len(trades') = Len(trades) + 1
          /\ SubSeq(trades', 1, Len(trades)) = trades
          /\ trades'[Len(trades')].id = inflight.trade_response.id
       \/ /\ resp'.op = "delete_trade" /\ resp'.code = 200
          /\ HasTrade(trades, resp'.args.trade_id)
          /\ TradeOf(trades, resp'.args.trade_id).user_id
                = api_keys[resp'.args.api_key]
          /\ trades' = SelectSeq(trades, LAMBDA t : t.id # resp'.args.trade_id)
          /\ Len(trades') = Len(trades) - 1]_vars

\* C25 witness: with two users registered, a record stored on an earlier
\* day is still in the ledger, COMPLETED, after its owner changed the
\* profile and another record was deleted, and a list has just been served.
C25_Witness ==
    /\ resp.op = "list_trades" /\ Len(resp.body) >= 1
    /\ Len(trades) >= 1
    /\ trades[1].created_at < clock
    /\ trades[1].status = COMPLETED
    /\ users[trades[1].user_id].fund_name = "Fund X"
    /\ Cardinality(DOMAIN users) = 2
    /\ deleted # {}

\* C26: every record in the ledger has a performance_metrics map, and the
\* analytics route, which reads it of every matching record, always
\* answers 200.
C26_MetricsNeverMissing ==
    /\ \A i \in 1..Len(trades) : trades[i].performance_metrics # NoMetrics
    /\ resp.op = "get_historical_analytics" =>
          /\ resp.code = 200
          /\ ~AnalyticsRaises(trades)

\* C26 witness: the analytics route has just answered over a window that
\* holds two records of the requester.
C26_Witness ==
    /\ resp.op = "get_historical_analytics"
    /\ Cardinality(InWindow) = 2
    /\ resp.body.total_trades = 2

====
